---- MODULE Spec2Model ----
(***************************************************************************)
(* Node-reference expansion of the Weave markdown preview.                 *)
(*                                                                         *)
(* The model follows src/unnamed/part_010 (the markdown-it plugin),        *)
(* src/src/preview/renderers/*.ts (the display renderers and the nested    *)
(* template generator), src/src/preview/weaveRenderer.ts (the rendering    *)
(* of a section body) and src/src/preview/utils.ts (the render context).   *)
(*                                                                         *)
(* A document is the sequence of its node: links.  A section body is the   *)
(* sequence of the node: links found in its markdown.  HTML is a sequence  *)
(* of elements; an element records what the claims read of it: its kind,   *)
(* its class, the id in its data-target / data-for attribute, its number.  *)
(***************************************************************************)
EXTENDS Integers, Sequences, FiniteSets, TLC

VARIABLES
  store,         \* the IndexStore: id -> section (getSectionById)
  config,        \* the weave.* settings read by getPreviewConfig
  doc,           \* the node: links of the document being previewed
  weaveContext,  \* env object -> its weaveContext property (a RenderContext or none)
  renderEnv,     \* the env object of the running render call
  entry,         \* the entry point of the running call
  calls,         \* render calls made so far
  pc,            \* position of the running call
  flushBy,       \* which wrapper is appending the footnotes section
  callDepth,     \* the depth argument link_close gives renderNodeLink
  tokIdx,        \* index in doc of the next link_close
  stack,         \* activations of getNestedLinkTemplates, innermost last
  fnIdx,         \* renderFootnotesSection: index of the footnote being mapped
  fnTemplates,   \* renderFootnotesSection: nestedTemplates accumulated so far
  html,          \* the HTML of the running call, as built so far
  prevHtml,      \* the HTML the previous call returned
  prevCall,      \* the entry point and the document of the previous call
  href,          \* parseNodeUrl: its argument
  parseResult,   \* parseNodeUrl: what it returned
  fragment,      \* a section to expand: lengths of its markdown and HTML, the limit
  rendered,      \* the HTML fragment made of it
  isIndexingWorkspace,  \* extension.ts: the module variable of that name
  runs,          \* the calls of indexWorkspace: where each one is
  lastOpen,      \* the last onDidOpenTextDocument event and what the handler did
  timeoutId,     \* debounce: the pending timeout (its document argument), if any
  changed,       \* documents changed and not validated since
  fileIndexByUri,  \* IndexStore: the per-file indices, in insertion order
  sectionsById,  \* IndexStore: section id -> the file whose section it is
  incomingRefs,  \* IndexStore: <<toId, fromId>> -> count
  outgoingRefs,  \* IndexStore: <<fromId, toId>> -> count
  cmdPc,         \* createNodeFromSelection: where the command is
  cmdInput,      \* the nodeLinkFormat setting and the display type picked
  fileCreated,   \* createNodeFromSelection: its local variable of that name
  targetDir,     \* the node directory exists
  targetFile,    \* the node file: absent, there before the command, or written by it
  linkInDoc      \* the selection has been replaced by the link

\* the state of the preview renderer
renderVars == <<store, config, doc, weaveContext, renderEnv, entry, calls, pc, flushBy,
                callDepth, tokIdx, stack, fnIdx, fnTemplates, html, prevHtml, prevCall>>

\* the state of parseNodeUrl
parseVars == <<href, parseResult>>

\* the state outside the preview renderer
\* the state of the rendering of one fragment
truncVars == <<fragment, rendered>>

\* the state of the extension host
hostVars == <<isIndexingWorkspace, runs, lastOpen, timeoutId, changed>>

\* the state of the IndexStore
indexVars == <<fileIndexByUri, sectionsById, incomingRefs, outgoingRefs>>

\* the state of the createNodeFromSelection command
cmdVars == <<cmdPc, cmdInput, fileCreated, targetDir, targetFile, linkInDoc>>

extVars == <<parseVars, truncVars, hostVars, indexVars, cmdVars>>

\* the state outside each part
notParseVars == <<renderVars, truncVars, hostVars, indexVars, cmdVars>>

notTruncVars == <<renderVars, parseVars, hostVars, indexVars, cmdVars>>

notHostVars == <<renderVars, parseVars, truncVars, indexVars, cmdVars>>

notIndexVars == <<renderVars, parseVars, truncVars, hostVars, cmdVars>>

notCmdVars == <<renderVars, parseVars, truncVars, hostVars, indexVars>>

vars == <<renderVars, extVars>>

----------------------------------------------------------------------------
(* The other parts at rest *)

\* parseNodeUrl has not been called
NotParsed == [tag |-> "pending"]

ParseUnused == href = <<>> /\ parseResult = NotParsed

\* no fragment has been rendered
NotRendered == [tag |-> "pending"]

NoFragment == [mdLen |-> 0, htmlLen |-> 0, maxChars |-> 0, nested |-> FALSE]

TruncUnused == fragment = NoFragment /\ rendered = NotRendered

\* the extension has not been activated
RunIds == {"activation", "command"}

NoRun == [pc |-> "none", i |-> 0, n |-> 0]

NoOpen == [doc |-> "none", indexing |-> FALSE, validated |-> FALSE]

NoTimeout == "undefined"

HostUnused ==
  /\ isIndexingWorkspace = FALSE
  /\ runs = [r \in RunIds |-> NoRun]
  /\ lastOpen = NoOpen
  /\ timeoutId = NoTimeout
  /\ changed = {}

\* the ids and uris of the IndexStore model
IndexIds == {"p", "q"}

Uris == {"main.md", "sections/p.md"}

NoRefs == [pair \in IndexIds \X IndexIds |-> 0]

NoSections == [id \in IndexIds |-> "none"]

\* a new IndexStore
IndexUnused ==
  /\ fileIndexByUri = <<>>
  /\ sectionsById = NoSections
  /\ incomingRefs = NoRefs
  /\ outgoingRefs = NoRefs

\* the command has not been invoked
NoLink == [format |-> "none", display |-> "none"]

CmdUnused ==
  /\ cmdPc = "none"
  /\ cmdInput = [linkFormat |-> "weave", displayType |-> "none"]
  /\ fileCreated = FALSE
  /\ targetDir = FALSE
  /\ targetFile = "absent"
  /\ linkInDoc = NoLink

ExtUnused == ParseUnused /\ TruncUnused /\ HostUnused /\ IndexUnused /\ CmdUnused

----------------------------------------------------------------------------
(* Bounds and input sets *)

MaxCalls == 2

Ids == {"a", "b", "c", "d", "e"}

DisplayTypes == {"inline", "stretch", "overlay", "footnote", "sidenote", "margin", "panel"}

NoDisplay == "none"

\* a node: link, as parseNodeUrl returns it (display is NoDisplay when absent or invalid)
\* and the text between the brackets of the link, a string of characters
RefT(id, display, text) == [id |-> id, display |-> display, text |-> text]

Ref(id, display) == RefT(id, display, <<"t">>)

L(id) == Ref(id, NoDisplay)

\* a section of the index: body is the node: links of its markdown, long says
\* that fullMarkdown.length exceeds maxExpandedCharsPerRef, broken that
\* rendering its markdown throws
Section(body) == [exists |-> TRUE, body |-> body, long |-> FALSE, broken |-> FALSE]

NoSection == [exists |-> FALSE, body |-> <<>>, long |-> FALSE, broken |-> FALSE]

LongSection(body) == [Section(body) EXCEPT !.long = TRUE]

BrokenSection == [Section(<<>>) EXCEPT !.broken = TRUE]

Leaf == Section(<<>>)

\* Content lookups: a chain a->b->c, the cycles a->b->a and a->b->c->a, a
\* self reference, sibling references, a reference to a missing target, a
\* diamond and five leaves.
Chain == [i \in Ids |-> CASE i = "a" -> Section(<<L("b")>>)
                          [] i = "b" -> Section(<<L("c")>>)
                          [] OTHER -> Leaf]

Cycle2 == [i \in Ids |-> CASE i = "a" -> Section(<<L("b")>>)
                           [] i = "b" -> Section(<<L("a")>>)
                           [] i = "c" -> Leaf
                           [] OTHER -> NoSection]

Cycle3 == [i \in Ids |-> CASE i = "a" -> Section(<<L("b")>>)
                           [] i = "b" -> Section(<<L("c")>>)
                           [] i = "c" -> Section(<<L("a")>>)
                           [] OTHER -> Leaf]

SelfLoop == [i \in Ids |-> CASE i = "a" -> Section(<<L("a"), L("b")>>)
                             [] i = "b" -> Leaf
                             [] OTHER -> NoSection]

Siblings == [i \in Ids |-> CASE i = "a" -> Section(<<L("b"), L("b"), L("c")>>)
                             [] i = "b" -> Section(<<L("c")>>)
                             [] i = "c" -> Section(<<Ref("d", "inline")>>)
                             [] OTHER -> NoSection]

Diamond == [i \in Ids |-> CASE i = "a" -> Section(<<Ref("b", "stretch"), Ref("c", "inline")>>)
                            [] i = "b" -> Section(<<L("d")>>)
                            [] i = "c" -> Section(<<L("d")>>)
                            [] i = "d" -> Section(<<L("a")>>)
                            [] OTHER -> NoSection]

Flat == [i \in Ids |-> Leaf]

\* a long section that refers to a section that cannot be rendered and to
\* another long section
Faulty == [i \in Ids |-> CASE i = "a" -> LongSection(<<L("b"), L("c")>>)
                           [] i = "b" -> BrokenSection
                           [] i = "c" -> LongSection(<<>>)
                           [] OTHER -> Leaf]

Stores == {Chain, Cycle2, Cycle3, SelfLoop, Siblings, Diamond, Flat, Faulty}

DefaultMaxPreviewDepth == 3

DefaultMaxExpandedRefsPerDoc == 50

Configs == [maxPreviewDepth : {0, 1, DefaultMaxPreviewDepth},
            maxExpandedRefsPerDoc : {2, DefaultMaxExpandedRefsPerDoc}]

Docs == {<<Ref("a", d)>> : d \in {NoDisplay, "overlay", "footnote", "sidenote"}}
          \cup {<<L("a"), L("a")>>, <<L("a"), L("d")>>,
                <<Ref("a", "footnote"), Ref("b", "stretch"), Ref("a", "footnote")>>,
                <<Ref("b", "footnote"), Ref("a", "footnote"), Ref("b", "footnote")>>,
                <<Ref("a", "sidenote"), Ref("b", "footnote"), Ref("a", "sidenote")>>,
                <<L("a"), Ref("b", "panel"), Ref("c", "margin"), L("d"), L("e")>>,
                <<RefT("a", "stretch", <<>>)>>,
                <<RefT("a", "panel", <<" ", " ">>), RefT("b", "inline", <<" ", "t">>)>>}

\* the document the host renders next: the one it rendered before, or that
\* document after an edit that deleted its first reference
HostDocs(d) == {d} \cup (IF Len(d) > 1 THEN {Tail(d)} ELSE {})

\* no call has returned yet
NoCall == [entry |-> "none", doc |-> <<>>]

\* the env objects of the host: one it keeps and passes again, one made per call
EnvObjs == {"kept", "new"}

----------------------------------------------------------------------------
(* The render context *)

\* createRenderContext(): the context a render call starts with
CreateRenderContext ==
  [present |-> TRUE, expandedRefs |-> 0, expandedIds |-> {}, footnoteCount |-> 0,
   sidenoteCount |-> 0, footnotes |-> <<>>, footnoteRefCount |-> 0]

\* an env object without a weaveContext property
NoContext == [CreateRenderContext EXCEPT !.present = FALSE]

\* env.weaveContext of the running call
Ctx == weaveContext[renderEnv]

getSectionById(id) == store[id]

\* an HTML element: num is the number it shows (0: none), anchor the number of
\* its fnref- id (0: none)
El(kind, cls, target, num, anchor) ==
  [kind |-> kind, cls |-> cls, target |-> target, num |-> num, anchor |-> anchor]

----------------------------------------------------------------------------
(* renderNodeLink *)

\* the checks in another order: the depth check before the cycle check
RenderNodeLinkOutcomeDepthFirst(section, parsed, depth, ctx) ==
  IF ~section.exists THEN "missing"
  ELSE IF depth > config.maxPreviewDepth THEN "depth-limit"
  ELSE IF parsed.id \in ctx.expandedIds THEN "cycle"
  ELSE IF ctx.expandedRefs >= config.maxExpandedRefsPerDoc THEN "ref-limit"
  ELSE "resolve"

\* the checks of renderNodeLink, in the order of the code
RenderNodeLinkOutcome(section, parsed, depth, ctx) ==
  IF ~section.exists THEN "missing"
  ELSE IF parsed.id \in ctx.expandedIds THEN "cycle"
  ELSE IF depth > config.maxPreviewDepth THEN "depth-limit"
  ELSE IF ctx.expandedRefs >= config.maxExpandedRefsPerDoc THEN "ref-limit"
  ELSE "resolve"

\* the fallback markup of renderNodeLink: a span.weave-link with a badge
Badge(outcome, id) == El("badge", "weave-" \o outcome, id, 0, 0)

\* const display = parsed.display || 'inline'
DisplayOf(parsed) == IF parsed.display = NoDisplay THEN "inline" ELSE parsed.display

\* weaveRenderer.ts: a node: link inside a section body becomes a trigger span
\* carrying data-nested="1"; every display other than inline becomes overlay
NestedSpan(ref) ==
  [target |-> ref.id,
   cls |-> IF ref.display = "inline" THEN "weave-inline-trigger" ELSE "weave-node-link",
   dataDisplay |-> IF ref.display = "inline" THEN NoDisplay ELSE "overlay"]

\* renderWeaveContent without its try/catch: the exception leaves the function
renderWeaveContentUncaught(section) == IF section.broken THEN "throw" ELSE "html"

\* renderWeaveContent: its try block returns the HTML, its catch the error div
renderWeaveContent(section) == IF section.broken THEN "error" ELSE "html"

\* renderSectionBody of weaveRenderer.ts: the HTML of a section, as the
\* sequence of the nested trigger spans it contains (none in the error div)
renderSectionBodyHtml(section) ==
  IF renderWeaveContent(section) = "html"
  THEN [i \in 1..Len(section.body) |-> NestedSpan(section.body[i])]
  ELSE <<>>

\* renderSectionBody of the plugin
renderSectionBody(section) == renderSectionBodyHtml(section)

\* what the HTML of renderSectionBodyHtml holds besides the spans: the error div
WeaveContentMarks(id) ==
  IF renderWeaveContent(getSectionById(id)) = "error"
  THEN <<El("error", "weave-error", id, 0, 0)>>
  ELSE <<>>

\* what the HTML of the plugin's renderSectionBody holds besides the spans:
\* the error div and the span.weave-truncated
PluginContentMarks(id) ==
  WeaveContentMarks(id) \o
    (IF getSectionById(id).long
     THEN <<El("marker", "weave-truncated", id, 0, 0)>>
     ELSE <<>>)

TemplatedDisplays == {"inline", "stretch", "overlay", "panel"}

TriggerClass(display) ==
  CASE display = "inline" -> "weave-inline-trigger"
    [] display = "stretch" -> "weave-stretch-trigger"
    [] display = "overlay" -> "weave-node-link"
    [] display = "panel" -> "weave-panel-trigger"

ContentTemplateClass(display) == "weave-" \o display \o "-content-template"

Template(cls, id) == El("template", cls, id, 0, 0)

\* String.prototype.trim on a string of characters
RECURSIVE trim(_)
trim(text) ==
  IF text = <<>> THEN <<>>
  ELSE IF Head(text) = " " THEN trim(Tail(text))
  ELSE IF text[Len(text)] = " " THEN trim(SubSeq(text, 1, Len(text) - 1))
  ELSE text

\* !linkText || !linkText.trim() || linkText.trim() === ''
isAnchorOnly(linkText) == linkText = <<>> \/ trim(linkText) = <<>>

\* link_close: renderNodeLink(parsed, linkText || parsed.id, ...)
LinkText(parsed) == IF parsed.text = <<>> THEN <<parsed.id>> ELSE parsed.text

\* the renderers' anchor-only form: a span with the plus/minus or info icon
AnchorClass(display) == "weave-" \o display \o "-anchor"

\* if (isAnchorOnly(linkText)) return icon span; else return text trigger
TriggerElement(display, linkText, id) ==
  IF isAnchorOnly(linkText)
  THEN El("trigger", AnchorClass(display), id, 0, 0)
  ELSE El("trigger", TriggerClass(display), id, 0, 0)

\* an activation of getNestedLinkTemplates(content, depth, ctx)
Frame(content, depth, owner, displayType, ret) ==
  [content |-> content, pos |-> 1, depth |-> depth, processedIds |-> {},
   templates |-> <<>>, owner |-> owner, displayType |-> displayType, ret |-> ret]

Top == stack[Len(stack)]

SetTop(f) == [stack EXCEPT ![Len(stack)] = f]

SetCtx(c) == [weaveContext EXCEPT ![renderEnv] = c]

\* index of the footnote entry of id in ctx.footnotes, 0 when there is none
FootnoteIndex(footnotes, id) ==
  IF \E i \in 1..Len(footnotes) : footnotes[i].id = id
  THEN CHOOSE i \in 1..Len(footnotes) : footnotes[i].id = id
  ELSE 0

\* renderFootnoteRef without its ctx.footnotes.get: every reference makes an entry
RegisterFootnoteAnew(ctx, targetId, content) ==
  LET refId == ctx.footnoteRefCount + 1
      count == ctx.footnoteCount + 1
  IN [ctx EXCEPT !.footnoteRefCount = refId,
                 !.footnoteCount = count,
                 !.footnotes = Append(@, [id |-> targetId, num |-> count,
                                          content |-> content, refIds |-> <<refId>>])]

\* renderFootnoteRef: the context after registering one reference to targetId
RegisterFootnote(ctx, targetId, content) ==
  LET refId == ctx.footnoteRefCount + 1
      at == FootnoteIndex(ctx.footnotes, targetId)
      count == IF at = 0 THEN ctx.footnoteCount + 1 ELSE ctx.footnoteCount
      entries == IF at = 0
                 THEN Append(ctx.footnotes,
                             [id |-> targetId, num |-> count, content |-> content,
                              refIds |-> <<>>])
                 ELSE ctx.footnotes
      k == IF at = 0 THEN Len(entries) ELSE at
  IN [ctx EXCEPT !.footnoteRefCount = refId,
                 !.footnoteCount = count,
                 !.footnotes = [entries EXCEPT ![k].refIds = Append(@, refId)]]

\* Array.from(ctx.footnotes.values()).sort((a, b) => a.num - b.num)
SortedFootnotes(ctx) == SortSeq(ctx.footnotes, LAMBDA x, y : x.num < y.num)

----------------------------------------------------------------------------
(* The render calls *)

Init ==
  /\ store \in Stores
  /\ config \in Configs
  /\ doc \in Docs
  /\ weaveContext = [e \in EnvObjs |-> NoContext]
  /\ renderEnv = "new"
  /\ entry = "none"
  /\ calls = 0
  /\ pc = "idle"
  /\ flushBy = "none"
  /\ callDepth = 0
  /\ tokIdx = 1
  /\ stack = <<>>
  /\ fnIdx = 1
  /\ fnTemplates = <<>>
  /\ html = <<>>
  /\ prevHtml = <<>>
  /\ prevCall = NoCall
  /\ ExtUnused

\* the preview renderer before any call, for the specifications of the other parts
RenderUnused ==
  /\ store = Flat
  /\ config = [maxPreviewDepth |-> DefaultMaxPreviewDepth,
               maxExpandedRefsPerDoc |-> DefaultMaxExpandedRefsPerDoc]
  /\ doc = <<>>
  /\ weaveContext = [e \in EnvObjs |-> NoContext]
  /\ renderEnv = "new"
  /\ entry = "none"
  /\ calls = 0
  /\ pc = "idle"
  /\ flushBy = "none"
  /\ callDepth = 0
  /\ tokIdx = 1
  /\ stack = <<>>
  /\ fnIdx = 1
  /\ fnTemplates = <<>>
  /\ html = <<>>
  /\ prevHtml = <<>>
  /\ prevCall = NoCall

\* the host's env argument: the object it kept, or a new one without properties
PassEnv(e) == IF e = "new" THEN [weaveContext EXCEPT !["new"] = NoContext] ELSE weaveContext

\* md.render(src, env): the wrapper always installs a new context, then
\* originalRender parses (weave_init finds the context) and calls
\* md.renderer.render, which is the wrapper below
MdRender(e) ==
  /\ UNCHANGED extVars
  /\ pc = "idle"
  /\ calls < MaxCalls
  /\ renderEnv' = e
  /\ weaveContext' = [PassEnv(e) EXCEPT ![e] = CreateRenderContext]
  /\ entry' = "md.render"
  /\ calls' = calls + 1
  /\ pc' = "main"
  /\ tokIdx' = 1
  /\ html' = <<>>
  /\ flushBy' = "none"
  /\ doc' \in HostDocs(doc)
  /\ UNCHANGED <<store, config, callDepth, stack, fnIdx, fnTemplates, prevHtml, prevCall>>

\* md.renderer.render(tokens, options, env): a context is created only when
\* env has none (so do weave_init and link_open)
RendererRender(e) ==
  /\ UNCHANGED extVars
  /\ pc = "idle"
  /\ calls < MaxCalls
  /\ renderEnv' = e
  /\ weaveContext' = [PassEnv(e) EXCEPT
                        ![e] = IF PassEnv(e)[e].present THEN @ ELSE CreateRenderContext]
  /\ entry' = "renderer.render"
  /\ calls' = calls + 1
  /\ pc' = "main"
  /\ tokIdx' = 1
  /\ html' = <<>>
  /\ flushBy' = "none"
  /\ doc' \in HostDocs(doc)
  /\ UNCHANGED <<store, config, callDepth, stack, fnIdx, fnTemplates, prevHtml, prevCall>>

\* link_close of a node: link: renderNodeLink up to the point where the
\* target's body is rendered
LinkClose ==
  /\ UNCHANGED extVars
  /\ pc = "main"
  /\ tokIdx <= Len(doc)
  /\ LET parsed == doc[tokIdx]
         section == getSectionById(parsed.id)
         outcome == RenderNodeLinkOutcome(section, parsed, callDepth, Ctx)
     IN IF outcome = "resolve"
        THEN /\ weaveContext' = SetCtx([Ctx EXCEPT !.expandedRefs = @ + 1,
                                                   !.expandedIds = @ \cup {parsed.id}])
             /\ pc' = "body"
             /\ UNCHANGED <<html, tokIdx>>
        ELSE /\ html' = Append(html, Badge(outcome, parsed.id))
             /\ tokIdx' = tokIdx + 1
             /\ UNCHANGED <<weaveContext, pc>>
  /\ UNCHANGED <<store, config, doc, renderEnv, entry, calls, flushBy, callDepth,
                 stack, fnIdx, fnTemplates, prevHtml, prevCall>>

\* renderNodeLink without its expandedIds.delete
AfterBodyLeak(ctx, id) == ctx

\* ctx.expandedIds.delete(parsed.id) of renderNodeLink
AfterBody(ctx, id) == [ctx EXCEPT !.expandedIds = @ \ {id}]

\* the number a footnote reference shows: the num of its target's entry
FootnoteNum(ctx, targetId) == ctx.footnotes[FootnoteIndex(ctx.footnotes, targetId)].num

\* renderNodeLink from renderSectionBody on: the body is rendered, the id
\* leaves expandedIds and the renderer of the display mode runs; the four
\* template renderers start getNestedLinkTemplates(content, depth + 1, ctx)
SectionBody ==
  /\ UNCHANGED extVars
  /\ pc = "body"
  /\ LET parsed == doc[tokIdx]
         id == parsed.id
         display == DisplayOf(parsed)
         content == renderSectionBody(getSectionById(id))
         ctx1 == AfterBody(Ctx, id)
     IN IF renderWeaveContent(getSectionById(id)) = "throw"
        THEN /\ pc' = "raised"
             /\ UNCHANGED <<weaveContext, html, stack, tokIdx>>
        ELSE
        CASE display \in TemplatedDisplays ->
               /\ weaveContext' = SetCtx(ctx1)
               /\ html' = html \o <<TriggerElement(display, LinkText(parsed), id),
                                     Template(ContentTemplateClass(display), id)>>
                               \o PluginContentMarks(id)
               /\ stack' = <<Frame(content, callDepth + 1, "", "", "link")>>
               /\ pc' = "scan"
               /\ UNCHANGED tokIdx
          [] display = "footnote" ->
               LET ctx2 == RegisterFootnote(ctx1, id, content)
               IN /\ weaveContext' = SetCtx(ctx2)
                  /\ html' = Append(html, El("fnref", "weave-footnote-link", id,
                                              FootnoteNum(ctx2, id), ctx2.footnoteRefCount))
                  /\ pc' = "main"
                  /\ tokIdx' = tokIdx + 1
                  /\ UNCHANGED stack
          [] display = "sidenote" ->
               LET ctx2 == [ctx1 EXCEPT !.sidenoteCount = @ + 1]
               IN /\ weaveContext' = SetCtx(ctx2)
                  /\ html' = html \o <<El("sidenote", "weave-sidenote-container", id,
                                           ctx2.sidenoteCount, 0),
                                        Template("weave-sidenote-content-template", id)>>
                  /\ pc' = "main"
                  /\ tokIdx' = tokIdx + 1
                  /\ UNCHANGED stack
          [] display = "margin" ->
               /\ weaveContext' = SetCtx(ctx1)
               /\ html' = Append(html, El("margin", "weave-margin-note-container", id, 0, 0))
               /\ pc' = "main"
               /\ tokIdx' = tokIdx + 1
               /\ UNCHANGED stack
  /\ UNCHANGED <<store, config, doc, renderEnv, entry, calls, flushBy, callDepth,
                 fnIdx, fnTemplates, prevHtml, prevCall>>

----------------------------------------------------------------------------
(* getNestedLinkTemplates *)

\* the regex without its g flag: exec starts over at every call
AdvanceStuck(pos) == pos

\* the regex /<span[^>]*data-nested="1"[^>]*>/g: exec resumes after the last match
Advance(pos) == pos + 1

\* getNestedLinkTemplates without its expandedIds.delete
AfterNestedLeak(ctx, nestedId) == ctx

\* ctx.expandedIds.delete(nestedId) of getNestedLinkTemplates
AfterNested(ctx, nestedId) == [ctx EXCEPT !.expandedIds = @ \ {nestedId}]

\* displayType of a matched span
DisplayTypeOf(span) ==
  IF span.cls = "weave-stretch-trigger" THEN "stretch"
  ELSE IF span.dataDisplay # NoDisplay THEN span.dataDisplay
  ELSE "overlay"

\* the loop body without processedIds
NestedDecisionNoDedupe(nestedId, depth, processedIds, ctx) ==
  IF nestedId \in ctx.expandedIds THEN "skip"
  ELSE IF depth > config.maxPreviewDepth THEN "depth"
  ELSE IF ~getSectionById(nestedId).exists THEN "missing"
  ELSE "expand"

\* what the loop body does with a matched span
NestedDecision(nestedId, depth, processedIds, ctx) ==
  IF nestedId \in processedIds \/ nestedId \in ctx.expandedIds THEN "skip"
  ELSE IF depth > config.maxPreviewDepth THEN "depth"
  ELSE IF ~getSectionById(nestedId).exists THEN "missing"
  ELSE "expand"

NestedTemplateClass(displayType) ==
  IF displayType = "stretch" THEN "weave-stretch-content-template"
  ELSE "weave-overlay-content-template"

\* one iteration of the while loop, up to the recursive call
ScanMatch ==
  /\ UNCHANGED extVars
  /\ pc = "scan"
  /\ Top.pos <= Len(Top.content)
  /\ LET f == Top
         span == f.content[f.pos]
         nestedId == span.target
         decision == NestedDecision(nestedId, f.depth, f.processedIds, Ctx)
         f1 == [f EXCEPT !.pos = Advance(@),
                         !.processedIds = IF decision = "skip" THEN @ ELSE @ \cup {nestedId}]
     IN IF decision = "expand"
        THEN /\ weaveContext' = SetCtx([Ctx EXCEPT !.expandedIds = @ \cup {nestedId}])
             /\ IF renderWeaveContent(getSectionById(nestedId)) = "throw"
                THEN pc' = "raised" /\ UNCHANGED stack
                ELSE /\ stack' = Append(SetTop(f1),
                                        Frame(renderSectionBodyHtml(getSectionById(nestedId)),
                                              f.depth + 1, nestedId, DisplayTypeOf(span),
                                              "nested"))
                     /\ UNCHANGED pc
        ELSE /\ stack' = SetTop(f1)
             /\ UNCHANGED <<weaveContext, pc>>
  /\ UNCHANGED <<store, config, doc, renderEnv, entry, calls, flushBy, callDepth,
                 tokIdx, fnIdx, fnTemplates, html, prevHtml, prevCall>>

\* the loop ends: a recursive call returns into its caller's iteration
\* (expandedIds.delete, the two templates.push), the outermost call returns
\* to the renderer that made it
ScanReturn ==
  /\ UNCHANGED extVars
  /\ pc = "scan"
  /\ Top.pos > Len(Top.content)
  /\ LET f == Top
         n == Len(stack)
     IN CASE f.ret = "nested" ->
               /\ weaveContext' = SetCtx(AfterNested(Ctx, f.owner))
               /\ stack' = [SubSeq(stack, 1, n - 1) EXCEPT
                              ![n - 1].templates =
                                 @ \o <<Template(NestedTemplateClass(f.displayType), f.owner)>>
                                   \o WeaveContentMarks(f.owner)
                                   \o f.templates]
               /\ UNCHANGED <<pc, tokIdx, html, fnIdx, fnTemplates>>
          [] f.ret = "link" ->
               /\ html' = html \o f.templates
               /\ stack' = <<>>
               /\ pc' = "main"
               /\ tokIdx' = tokIdx + 1
               /\ UNCHANGED <<weaveContext, fnIdx, fnTemplates>>
          [] f.ret = "flush" ->
               /\ fnTemplates' = fnTemplates \o f.templates
               /\ fnIdx' = fnIdx + 1
               /\ stack' = <<>>
               /\ pc' = "flush"
               /\ UNCHANGED <<weaveContext, tokIdx, html>>
  /\ UNCHANGED <<store, config, doc, renderEnv, entry, calls, flushBy, callDepth, prevHtml, prevCall>>

----------------------------------------------------------------------------
(* The footnotes section and the return of the wrappers *)

\* originalRendererRender has returned: md.renderer.render checks footnotes.size
MainDone ==
  /\ UNCHANGED extVars
  /\ pc = "main"
  /\ tokIdx > Len(doc)
  /\ flushBy' = "renderer.render"
  /\ pc' = IF Len(Ctx.footnotes) > 0 THEN "flush" ELSE "return"
  /\ fnIdx' = 1
  /\ fnTemplates' = <<>>
  /\ UNCHANGED <<store, config, doc, weaveContext, renderEnv, entry, calls, callDepth,
                 tokIdx, stack, html, prevHtml, prevCall>>

\* renderFootnotesSection, the map callback of one footnote:
\* nestedTemplates += getNestedLinkTemplates(fn.content, 1, ctx)
FlushFootnote ==
  /\ UNCHANGED extVars
  /\ pc = "flush"
  /\ fnIdx <= Len(Ctx.footnotes)
  /\ stack' = <<Frame(SortedFootnotes(Ctx)[fnIdx].content, 1, "", "", "flush")>>
  /\ pc' = "scan"
  /\ UNCHANGED <<store, config, doc, weaveContext, renderEnv, entry, calls, flushBy,
                 callDepth, tokIdx, fnIdx, fnTemplates, html, prevHtml, prevCall>>

FootnoteItem(fn) == El("fnitem", "weave-footnote", fn.id, fn.num, fn.refIds[1])

\* the list items of the footnotes section, each with what its content holds
RECURSIVE FootnoteList(_)
FootnoteList(fns) ==
  IF fns = <<>> THEN <<>>
  ELSE <<FootnoteItem(Head(fns))>> \o PluginContentMarks(Head(fns).id)
         \o FootnoteList(Tail(fns))

\* renderFootnotesSection returns and the wrapper appends it to html
FlushDone ==
  /\ UNCHANGED extVars
  /\ pc = "flush"
  /\ fnIdx > Len(Ctx.footnotes)
  /\ LET fns == SortedFootnotes(Ctx)
     IN html' = html \o <<El("footnotes", "weave-footnotes", "", Len(fns), 0)>>
                     \o FootnoteList(fns)
                     \o fnTemplates
  /\ pc' = "return"
  /\ UNCHANGED <<store, config, doc, weaveContext, renderEnv, entry, calls, flushBy,
                 callDepth, tokIdx, stack, fnIdx, fnTemplates, prevHtml, prevCall>>

\* md.renderer.render returns: into md.render, which checks footnotes.size
\* itself, or to the host
Return ==
  /\ UNCHANGED extVars
  /\ pc = "return"
  /\ IF entry = "md.render" /\ flushBy = "renderer.render"
     THEN /\ flushBy' = "md.render"
          /\ pc' = IF Len(Ctx.footnotes) > 0 THEN "flush" ELSE "return"
          /\ fnIdx' = 1
          /\ fnTemplates' = <<>>
          /\ UNCHANGED <<prevHtml, prevCall>>
     ELSE /\ pc' = "idle"
          /\ prevHtml' = html
          /\ prevCall' = [entry |-> entry, doc |-> doc]
          /\ UNCHANGED <<flushBy, fnIdx, fnTemplates>>
  /\ UNCHANGED <<store, config, doc, weaveContext, renderEnv, entry, calls, callDepth,
                 tokIdx, stack, html>>

Step == LinkClose \/ SectionBody \/ ScanMatch \/ ScanReturn \/ MainDone
          \/ FlushFootnote \/ FlushDone \/ Return

Next == (\E e \in EnvObjs : MdRender(e) \/ RendererRender(e)) \/ Step

Spec == Init /\ [][Next]_vars

\* a render call runs to its end once the host has made it: the code is
\* synchronous, nothing else is scheduled before it returns
LiveSpec == Spec /\ WF_vars(Step)

----------------------------------------------------------------------------
(* renderNodeLink on arbitrary arguments *)

\* link_close is the only caller of renderNodeLink and gives it depth 0 and a
\* context whose expandedIds is empty.  ExpandSpec applies renderNodeLink to
\* every depth, expandedIds and expandedRefs of the sets below.
ArgDepths == 0..4

ArgExpandedIds == SUBSET {"a", "b"}

ArgExpandedRefs == {0, 2, DefaultMaxExpandedRefsPerDoc}

ArgDocs == {<<Ref(i, d)>> : i \in {"a", "d"}, d \in {NoDisplay, "footnote"}}

ExpandInit ==
  /\ store \in {Chain, Cycle2}
  /\ config \in Configs
  /\ doc \in ArgDocs
  /\ callDepth \in ArgDepths
  /\ \E ids \in ArgExpandedIds, n \in ArgExpandedRefs :
        weaveContext = [e \in EnvObjs |->
                          IF e = "new"
                          THEN [CreateRenderContext EXCEPT !.expandedIds = ids,
                                                           !.expandedRefs = n]
                          ELSE NoContext]
  /\ renderEnv = "new"
  /\ entry = "renderNodeLink"
  /\ calls = 1
  /\ pc = "main"
  /\ flushBy = "none"
  /\ tokIdx = 1
  /\ stack = <<>>
  /\ fnIdx = 1
  /\ fnTemplates = <<>>
  /\ html = <<>>
  /\ prevHtml = <<>>
  /\ prevCall = NoCall
  /\ ExtUnused

ExpandNext == LinkClose \/ SectionBody \/ ScanMatch \/ ScanReturn

ExpandSpec == ExpandInit /\ [][ExpandNext]_vars

----------------------------------------------------------------------------
(* What the claims read of a state *)

\* a render call has returned to the host
Returned == pc = "idle" /\ calls > 0

\* the running call is about to hand its final HTML to the host
Returning == pc = "return" /\ (entry = "md.render" => flushBy = "md.render")

\* the running call repeats the previous one: same entry point, same document
RepeatsPrevious == calls >= 2 /\ prevCall = [entry |-> entry, doc |-> doc]

\* the running call has just been entered
Entered == pc = "main" /\ tokIdx = 1

\* the number of cycle badges in the HTML
CycleMarkers(h) == Cardinality({i \in 1..Len(h) : h[i].cls = "weave-cycle"})

\* a template that holds the rendered content of its target
IsContentTemplate(el) == el.kind = "template" /\ el.cls # "weave-sidenote-content-template"

\* the elements the top-level references were rendered as, in document order
TopKinds(h) == SelectSeq(h, LAMBDA el : el.kind \in {"badge", "trigger", "fnref", "sidenote", "margin"})

\* ids whose content is being expanded: the target of the running
\* renderNodeLink while its body is rendered, and the targets of the running
\* recursive calls of getNestedLinkTemplates
BeingExpanded ==
  {stack[i].owner : i \in {j \in 1..Len(stack) : stack[j].ret = "nested"}}
    \cup (IF pc = "body" THEN {doc[tokIdx].id} ELSE {})

\* the elements of a kind, in the order of the HTML
OfKind(h, kind) == SelectSeq(h, LAMBDA el : el.kind = kind)

\* the footnote reference links, the numbered sidenotes, the footnote
\* sections and the footnote list items of the HTML
FootnoteRefs(h) == OfKind(h, "fnref")

Sidenotes(h) == OfKind(h, "sidenote")

FootnoteBlocks(h) == OfKind(h, "footnotes")

FootnoteItemsOf(h, id) == SelectSeq(OfKind(h, "fnitem"), LAMBDA el : el.target = id)

\* the entries of a footnote registry for a target
EntriesOf(footnotes, id) == {k \in 1..Len(footnotes) : footnotes[k].id = id}

\* the targets whose content the HTML carries in a template
ExpandedTargets(h) == {h[i].target : i \in {j \in 1..Len(h) : IsContentTemplate(h[j])}}

HasMarker(h, cls, id) == \E i \in 1..Len(h) : h[i].cls = cls /\ h[i].target = id

\* the element the top-level reference at k of the document was rendered as
TopElement(h, k) == TopKinds(h)[k]

----------------------------------------------------------------------------
(* The claims *)

\* C1: every call of renderNodeLink(reference, depth, ctx) has the outcome of
\* the first matching case in the order missing target, cycle (the target is
\* in expandedIds), depth exceeded (depth > maxPreviewDepth), budget exhausted
\* (expandedRefs >= maxExpandedRefsPerDoc); the reference is resolved (its id
\* enters expandedIds, expandedRefs grows by one) only when none matched.
C1_ResolutionOrder ==
  [][(pc = "main" /\ tokIdx <= Len(doc)) =>
       LET id == doc[tokIdx].id
           missing == ~store[id].exists
           cycle == id \in Ctx.expandedIds
           deep == callDepth > config.maxPreviewDepth
           spent == Ctx.expandedRefs >= config.maxExpandedRefsPerDoc
           Marked(cls) == /\ html' = Append(html, El("badge", cls, id, 0, 0))
                          /\ weaveContext' = weaveContext
           Resolved == /\ pc' = "body"
                       /\ html' = html
                       /\ weaveContext'[renderEnv].expandedRefs = Ctx.expandedRefs + 1
                       /\ id \in weaveContext'[renderEnv].expandedIds
       IN /\ missing => Marked("weave-missing")
          /\ (~missing /\ cycle) => Marked("weave-cycle")
          /\ (~missing /\ ~cycle /\ deep) => Marked("weave-depth-limit")
          /\ (~missing /\ ~cycle /\ ~deep /\ spent) => Marked("weave-ref-limit")
          /\ (~missing /\ ~cycle /\ ~deep /\ ~spent) => Resolved]_vars

\* the cycle case won although the depth and the budget cases matched too
C1_Witness ==
  /\ Len(html) = 1
  /\ html[1].cls = "weave-cycle"
  /\ callDepth > config.maxPreviewDepth
  /\ Ctx.expandedRefs >= config.maxExpandedRefsPerDoc

\* C2: rendering a document whose references form a cycle (a -> b -> a, or
\* a -> b -> c -> a) produces output that contains exactly one cycle marker.
C2_OneCycleMarker ==
  (store \in {Cycle2, Cycle3} /\ Returned) => CycleMarkers(html) = 1

\* C3: every render call terminates: a call that is running returns to the
\* host, for every document, content lookup (the cyclic ones too) and
\* configuration.
C3_Terminates == (pc # "idle") ~> (pc = "idle")

\* a call on a cyclic lookup has returned, with nested content expanded
C3_Witness ==
  /\ Returned
  /\ store \in {Cycle2, Cycle3, SelfLoop}
  /\ \E i \in 1..Len(html) : html[i].cls = "weave-overlay-content-template"

\* C4: with maxPreviewDepth = 1 the chain a -> b -> c expands one level of
\* nesting and shows the reference beyond the limit, c, with a depth-limit
\* marker.
C4_DepthLimited ==
  (store = Chain /\ doc = <<L("a")>> /\ config.maxPreviewDepth = 1 /\ Returned)
    => /\ "c" \notin ExpandedTargets(html)
       /\ HasMarker(html, "weave-depth-limit", "c")

\* C5: with maxExpandedRefsPerDoc = 2, a document of five references to five
\* targets that exist has its first two references expanded and its last
\* three shown with the reference-limit marker.
C5_FirstTwoExpanded ==
  (/\ config.maxExpandedRefsPerDoc = 2
   /\ Len(doc) = 5
   /\ \A k \in 1..5 : store[doc[k].id].exists
   /\ Returned)
    => /\ \A k \in 1..2 : TopElement(html, k).kind # "badge"
       /\ \A k \in 3..5 : TopElement(html, k).cls = "weave-ref-limit"

\* C6: a reference whose target does not exist has a missing marker in the
\* output, at the top level and inside expanded content alike, and
\* expandedRefs does not count it.
C6_MissingMarked ==
  Returned =>
    /\ \A k \in 1..Len(doc) :
         ~store[doc[k].id].exists => HasMarker(html, "weave-missing", doc[k].id)
    /\ \A t \in ExpandedTargets(html) : \A k \in 1..Len(store[t].body) :
         LET r == store[t].body[k]
         IN ~store[r.id].exists => HasMarker(html, "weave-missing", r.id)

\* C7: expandedIds is empty before and after every top-level render call, in
\* the context of every env object: what a call added, it removed.
C7_ActiveStackEmpty ==
  (pc = "idle" \/ Entered) => \A e \in EnvObjs : weaveContext[e].expandedIds = {}

\* a call on a kept env object has returned after expanding nested content
C7_Witness ==
  /\ Returned
  /\ renderEnv = "kept"
  /\ calls >= 2
  /\ \E i, j \in 1..Len(html) : /\ html[i].cls = "weave-overlay-content-template"
                                /\ html[j].kind = "trigger"
                                /\ i > j

\* C8: an id is in expandedIds only while its content is being expanded; a
\* nested reference whose target is in expandedIds refers to the target of a
\* running recursive call, and no top-level reference, a repeated one
\* included, gets the cycle marker.
C8_OnlyAncestors ==
  /\ Ctx.expandedIds \subseteq BeingExpanded
  /\ (pc = "scan" /\ Top.pos <= Len(Top.content)
        /\ Top.content[Top.pos].target \in Ctx.expandedIds)
       => \E i \in 1..Len(stack) : /\ stack[i].ret = "nested"
                                   /\ stack[i].owner = Top.content[Top.pos].target
  /\ CycleMarkers(html) = 0

\* the scan of a recursive call is at a reference to one of its ancestors
C8_Witness ==
  /\ pc = "scan"
  /\ Len(stack) >= 2
  /\ Top.pos <= Len(Top.content)
  /\ Top.content[Top.pos].target \in Ctx.expandedIds

\* C9: the targets whose content one render call expands into the output,
\* top-level and nested ones together, are at most maxExpandedRefsPerDoc.
C9_CeilingAcrossLevels ==
  Returned => Cardinality(ExpandedTargets(html)) <= config.maxExpandedRefsPerDoc

\* C10: every top-level render call, md.render or md.renderer.render, starts
\* with a context as createRenderContext returns it, also on an env object
\* the host has passed before.
C10_FreshContext == Entered => Ctx = CreateRenderContext

\* C11: a render call that repeats the previous one (same entry point, same
\* document, same content lookup) returns the HTML the previous call
\* returned, footnote numbers and fnref- anchor ids included.
C11_SameOutput == (Returning /\ RepeatsPrevious) => html = prevHtml

\* C12: a render call whose HTML has a footnote reference appends the
\* footnotes section once: the HTML it returns contains exactly one footnotes
\* section.
C12_OneFootnoteBlock ==
  (Returned /\ Len(FootnoteRefs(html)) > 0) => Len(FootnoteBlocks(html)) = 1

C14_FirstEncounterOrder ==
  LET refs == FootnoteRefs(html)
  IN \A i \in 1..Len(refs) :
       LET first == CHOOSE j \in 1..i :
                      /\ refs[j].target = refs[i].target
                      /\ \A m \in 1..(j - 1) : refs[m].target # refs[i].target
       IN refs[i].num = Cardinality({refs[m].target : m \in 1..first})

\* C15: within one call the n-th sidenote of the HTML shows the number n,
\* whatever its target and whatever footnotes the call has numbered.
C15_SidenoteSequence ==
  \A n \in 1..Len(Sidenotes(html)) : Sidenotes(html)[n].num = n

\* C16: a resolved top-level reference to a section whose raw content is
\* longer than maxExpandedCharsPerRef has the "(Content truncated)" marker in
\* the HTML, in every display mode.
C16_TruncationMarked ==
  Returned =>
    \A k \in 1..Len(doc) :
      (TopElement(html, k).kind # "badge" /\ store[doc[k].id].long)
        => HasMarker(html, "weave-truncated", doc[k].id)

C17_InlineStripsNested ==
  (Returned /\ Len(doc) = 1 /\ TopElement(html, 1).kind = "trigger") =>
    LET id == doc[1].id
        body == store[id].body
        nested == {body[k].id : k \in {n \in 1..Len(body) : store[body[n].id].exists}}
    IN IF DisplayOf(doc[1]) = "inline"
       THEN ExpandedTargets(html) = {id}
       ELSE config.maxPreviewDepth >= 1 => (nested \ {id}) \subseteq ExpandedTargets(html)

\* one step of getNestedLinkTemplates as C18 describes it.  At a matched span
\* the recursive call for its target starts exactly when the target is not in
\* expandedIds, has not been processed in this scan, depth is within
\* maxPreviewDepth and (when targetMustExist) the target is in the index;
\* when a recursive call returns, its caller's templates grow by the template
\* of the target followed by the templates of the recursive call.
NestedStep(targetMustExist) ==
  pc = "scan" =>
    LET f == Top
        n == Len(stack)
    IN /\ f.pos <= Len(f.content) =>
            LET id == f.content[f.pos].target
            IN (/\ Len(stack') = n + 1
                /\ stack'[n + 1].owner = id
                /\ stack'[n + 1].content = renderSectionBodyHtml(store[id])
                /\ stack'[n + 1].depth = f.depth + 1)
                 <=> (/\ id \notin Ctx.expandedIds
                      /\ id \notin f.processedIds
                      /\ f.depth <= config.maxPreviewDepth
                      /\ targetMustExist => store[id].exists)
       /\ (f.pos > Len(f.content) /\ f.ret = "nested") =>
            LET old == stack[n - 1].templates
                new == stack'[n - 1].templates
            IN /\ Len(new) >= Len(old) + 1 + Len(f.templates)
               /\ SubSeq(new, 1, Len(old)) = old
               /\ new[Len(old) + 1].kind = "template"
               /\ new[Len(old) + 1].target = f.owner
               /\ SubSeq(new, Len(new) - Len(f.templates) + 1, Len(new)) = f.templates

\* C18 as stated: getNestedLinkTemplates emits the template of a nested
\* marker's target exactly when the target is not in expandedIds, has not
\* been processed in this scan and depth is within maxPreviewDepth, and with
\* every template the templates of the recursion into the target's content.
C18_AsStated == [][NestedStep(FALSE)]_vars

\* C18, amended: ... exactly when, in addition, the target exists in the index.
C18_TemplatesExactly == [][NestedStep(TRUE)]_vars

\* a recursive call has returned into a scan that skipped a repeated target
C18_Witness ==
  /\ pc = "scan"
  /\ Len(Top.templates) >= 2
  /\ Top.pos > Cardinality(Top.processedIds) + 1

\* the element of a reference's markup that the reader clicks or focuses
\* (tabindex/role="button", or the <a href> of a footnote link) and the
\* attributes the code writes on that element: renderInlineExpansion,
\* renderStretchExpansion, renderOverlayExpansion, renderPanelExpansion
\* (trigger), renderNodeLink's fallbacks (badge), renderFootnoteRef (fnref),
\* renderSidenote (sidenote), renderMarginNote (margin)
InteractiveElement(el) ==
  CASE el.kind = "trigger" ->
         [cls |-> el.cls, attrs |-> {"class", "data-weave", "data-target", "tabindex", "role"}]
    [] el.kind = "badge" ->
         [cls |-> el.cls, attrs |-> {"class", "data-weave", "data-target"}]
    [] el.kind = "fnref" ->
         [cls |-> "weave-footnote-link", attrs |-> {"class", "data-weave", "href", "id"}]
    [] el.kind = "sidenote" ->
         [cls |-> "weave-sidenote-anchor", attrs |-> {"class", "data-target", "tabindex", "role"}]
    [] el.kind = "margin" ->
         [cls |-> "weave-margin-note-anchor", attrs |-> {"class", "data-target", "tabindex", "role"}]

InteractiveKinds == {"trigger", "badge", "fnref", "sidenote", "margin"}

\* C20: every interactive element of the returned HTML, whatever the display
\* mode or the fallback outcome, carries both data-weave and data-target on
\* that same element.
C20_MarkerAndTarget ==
  Returned =>
    \A i \in 1..Len(html) :
      html[i].kind \in InteractiveKinds =>
        {"data-weave", "data-target"} \subseteq InteractiveElement(html[i]).attrs

\* the icon forms of the four trigger-bearing renderers
IconClasses == {AnchorClass(d) : d \in TemplatedDisplays}

\* C21: a resolved reference whose link text is empty or only whitespace is
\* rendered, in inline, stretch, overlay and panel mode, as an icon marker
\* instead of text.
C21_AnchorOnlyIcon ==
  Returned =>
    \A k \in 1..Len(doc) :
      (/\ isAnchorOnly(doc[k].text)
       /\ DisplayOf(doc[k]) \in TemplatedDisplays
       /\ TopElement(html, k).kind = "trigger")
        => TopElement(html, k).cls \in IconClasses

\* the references to id in the document and in the sections of the index
ReferencesTo(id) ==
  {doc[k] : k \in {j \in 1..Len(doc) : doc[j].id = id}}
    \cup UNION {{store[o].body[k] : k \in {j \in 1..Len(store[o].body) : store[o].body[j].id = id}}
                 : o \in Ids}

\* C22: every resolved reference is rendered by the strategy of its display
\* mode, inline when it names none, at every nesting depth: a content
\* template of the returned HTML is the template of the display mode of a
\* reference to its target.
C22_DispatchByDisplay ==
  Returned =>
    \A i \in 1..Len(html) :
      IsContentTemplate(html[i]) =>
        \E r \in ReferencesTo(html[i].target) :
          html[i].cls = ContentTemplateClass(DisplayOf(r))

----------------------------------------------------------------------------
(* parseNodeUrl (src/src/preview/utils.ts) *)

\* A string is a sequence of atoms: the delimiters ":", "?", "=", "&", the
\* character "+", and words without any of these.
SchemeAtoms == {<<>>, <<"node", ":">>, <<"node">>, <<"nod", ":">>}

IdAtoms == {<<>>, <<"a">>, <<"a", ":", "b">>}

Keys == {"display", "export", "foo", "__proto__"}

Values == {"inline", "panel", "bogus", "omit"}

\* well-formed and malformed query strings, without the leading "?"
QueryAtoms ==
  {<<>>, <<"=">>, <<"&", "&">>, <<"foo">>, <<"display">>,
   <<"export", "=", "a", "+", "b">>,
   <<"display", "=", "inline", "?", "foo", "=", "omit">>,
   <<"display", "=", "bogus", "&", "display", "=", "panel">>,
   <<"display", "=", "panel", "&", "display", "=", "bogus">>,
   <<"foo", "=", "inline", "=", "omit">>}
    \cup {<<k, "=", v>> : k \in Keys, v \in Values}
    \cup {<<k1, "=", "inline", "&", k2, "=", "omit">> : k1 \in Keys, k2 \in Keys}

Hrefs == {p \o i : p \in SchemeAtoms, i \in IdAtoms}
           \cup {p \o i \o <<"?">> \o q : p \in SchemeAtoms, i \in IdAtoms, q \in QueryAtoms}

\* href.startsWith('node:')
startsWithNode(h) == Len(h) >= 2 /\ h[1] = "node" /\ h[2] = ":"

\* String.prototype.split(sep): the pieces between the separators
RECURSIVE split(_, _)
split(str, sep) ==
  IF \A i \in 1..Len(str) : str[i] # sep THEN <<str>>
  ELSE LET n == CHOOSE i \in 1..Len(str) :
                  str[i] = sep /\ \A j \in 1..(i - 1) : str[j] # sep
       IN <<SubSeq(str, 1, n - 1)>> \o split(SubSeq(str, n + 1, Len(str)), sep)

\* application/x-www-form-urlencoded decoding of a name or a value: "+" is a space
RECURSIVE decode(_)
decode(str) ==
  IF str = <<>> THEN <<>>
  ELSE <<IF Head(str) = "+" THEN " " ELSE Head(str)>> \o decode(Tail(str))

\* one name=value pair of the query: split at the first "="
Pair(seg) ==
  LET parts == split(seg, "=")
  IN [key |-> decode(parts[1]),
      value |-> decode(SubSeq(seg, Len(parts[1]) + 2, Len(seg)))]

\* new URLSearchParams(queryPart): the pairs of the non-empty "&" segments, in order
URLSearchParams(query) ==
  LET segs == SelectSeq(split(query, "&"), LAMBDA seg : seg # <<>>)
  IN [k \in 1..Len(segs) |-> Pair(segs[k])]

\* isValidDisplayType: VALID_DISPLAY_MODES.includes(value)
isValidDisplayType(value) == Len(value) = 1 /\ value[1] \in DisplayTypes

\* a property that was never assigned
Undefined == <<"undefined">>

\* obj[key] = value on an object literal: the __proto__ setter of
\* Object.prototype ignores a value that is not an object
SetProperty(obj, key, value) ==
  IF key = <<"__proto__">> THEN obj
  ELSE {q \in obj : q[1] # key} \cup {<<key, value>>}

\* the body of the for loop over the pairs
RECURSIVE ParseParams(_, _)
ParseParams(result, params) ==
  IF params = <<>> THEN result
  ELSE LET key == Head(params).key
           value == Head(params).value
           next == IF key = <<"display">>
                   THEN IF isValidDisplayType(value)
                        THEN [result EXCEPT !.display = value]
                        ELSE [result EXCEPT !.unknownParams = SetProperty(@, key, value)]
                   ELSE IF key = <<"export">>
                   THEN [result EXCEPT !.export = value]
                   ELSE [result EXCEPT !.unknownParams = SetProperty(@, key, value)]
       IN ParseParams(next, Tail(params))

\* return null
Null == [tag |-> "null"]

\* parseNodeUrl without if (!idPart) return null
parseNodeUrlAnyId(h) ==
  IF ~startsWithNode(h) THEN Null
  ELSE LET parts == split(SubSeq(h, 3, Len(h)), "?")
           idPart == parts[1]
           queryPart == IF Len(parts) >= 2 THEN parts[2] ELSE <<>>
           result == [tag |-> "ref", id |-> idPart, display |-> Undefined,
                      export |-> Undefined, unknownParams |-> {}]
       IN ParseParams(result, URLSearchParams(queryPart))

parseNodeUrl(h) ==
  IF ~startsWithNode(h) THEN Null
  ELSE LET parts == split(SubSeq(h, 3, Len(h)), "?")
           idPart == parts[1]
           queryPart == IF Len(parts) >= 2 THEN parts[2] ELSE <<>>
           result == [tag |-> "ref", id |-> idPart, display |-> Undefined,
                      export |-> Undefined, unknownParams |-> {}]
       IN IF idPart = <<>> THEN Null
          ELSE IF queryPart = <<>> THEN result
          ELSE ParseParams(result, URLSearchParams(queryPart))

ParseInit ==
  /\ RenderUnused
  /\ TruncUnused
  /\ HostUnused
  /\ IndexUnused
  /\ CmdUnused
  /\ href \in Hrefs
  /\ parseResult = NotParsed

ParseCall ==
  /\ parseResult = NotParsed
  /\ parseResult' = parseNodeUrl(href)
  /\ UNCHANGED <<href, notParseVars>>

ParseNext == ParseCall

ParseSpec == ParseInit /\ [][ParseNext]_vars

\* the id segment of href: what follows "node:" up to the first "?"
HasId(h) == Len(h) >= 3 /\ h[3] # "?"

\* C23: for every input string reference parsing returns without throwing,
\* and it returns null exactly when the scheme prefix or the id segment is
\* absent or empty; in every other case, a malformed query string included,
\* it returns a Reference.
C23_NullIffNoSchemeOrId ==
  parseResult # NotParsed =>
    /\ parseResult = Null <=> ~(startsWithNode(href) /\ HasId(href))
    /\ parseResult # Null =>
         /\ parseResult.tag = "ref"
         /\ parseResult.id # <<>>
         /\ \E n \in 1..Len(href) : parseResult.id = SubSeq(href, 3, n)

\* a reference with a malformed query string has been parsed
C23_Witness ==
  /\ parseResult \notin {NotParsed, Null}
  /\ \E n \in 1..Len(href) : SubSeq(href, n, Len(href)) = <<"?", "&", "&">>

\* the query string of href: what follows the first "?" up to the next one
QueryOf(h) ==
  LET parts == split(SubSeq(h, 3, Len(h)), "?")
  IN IF Len(parts) >= 2 THEN parts[2] ELSE <<>>

\* the values given to key in the query, in order
ValuesOf(params, key) ==
  LET sel == SelectSeq(params, LAMBDA q : q.key = key)
  IN [k \in 1..Len(sel) |-> sel[k].value]

Last(seq) == seq[Len(seq)]

\* C24: in a parsed Reference display is set only to one of the seven known
\* display modes given in the query; any other display value is moved to
\* unknownParams, the export value is copied as given, and every other query
\* key is copied into unknownParams with its value.
C24_ParamsSorted ==
  parseResult.tag = "ref" =>
    LET params == URLSearchParams(QueryOf(href))
        keys == {params[k].key : k \in 1..Len(params)}
        displays == ValuesOf(params, <<"display">>)
        known == SelectSeq(displays, isValidDisplayType)
        other == SelectSeq(displays, LAMBDA v : ~isValidDisplayType(v))
        exports == ValuesOf(params, <<"export">>)
    IN /\ parseResult.display = IF known = <<>> THEN Undefined ELSE Last(known)
       /\ other # <<>> => <<<<"display">>, Last(other)>> \in parseResult.unknownParams
       /\ parseResult.export = IF exports = <<>> THEN Undefined ELSE Last(exports)
       /\ \A key \in keys \ {<<"display">>, <<"export">>} :
            <<key, Last(ValuesOf(params, key))>> \in parseResult.unknownParams
       /\ \A q \in parseResult.unknownParams :
            /\ q[1] \in keys \ {<<"export">>}
            /\ q[1] = <<"display">> => other # <<>>

----------------------------------------------------------------------------

\* the template elements of h, in order
Templates(h) == OfKind(h, "template")

\* C25: in the HTML of one render call no two templates of the same class
\* carry the same target id, whether the target is cited several times in the
\* document or reached through several nested paths.
C25_TemplatesUniquelyKeyed ==
  Returned =>
    \A i, j \in 1..Len(Templates(html)) :
      (i < j /\ Templates(html)[i].cls = Templates(html)[j].cls)
        => Templates(html)[i].target # Templates(html)[j].target

----------------------------------------------------------------------------
(* The character limit of an expanded reference *)

\* lengths are counted in units of this model, the largest one is MaxFragmentLen
MaxFragmentLen == 5

\* a section with its full markdown (frontmatter included) and the HTML that
\* toHtml yields for it; frontmatter makes the markdown longer than the HTML,
\* tags make the HTML longer than the markdown
Fragments ==
  [mdLen : 1..MaxFragmentLen, htmlLen : 0..MaxFragmentLen,
   maxChars : 0..MaxFragmentLen, nested : BOOLEAN]

\* renderWeaveContent: if (options.maxChars && html.length > options.maxChars)
isCut(htmlLen, maxChars) == maxChars # 0 /\ htmlLen > maxChars

\* html.slice(0, options.maxChars) + '...'
cutLength(htmlLen, maxChars) == IF isCut(htmlLen, maxChars) THEN maxChars + 3 ELSE htmlLen

\* the plugin's renderSectionBody: if (fullDoc.length > maxExpandedCharsPerRef)
\* append the weave-truncated span; getNestedLinkTemplates calls the renderer
\* itself and appends nothing
hasMarker(f) == ~f.nested /\ f.mdLen > f.maxChars

TruncInit ==
  /\ RenderUnused
  /\ ParseUnused
  /\ HostUnused
  /\ IndexUnused
  /\ CmdUnused
  /\ fragment \in Fragments
  /\ rendered = NotRendered

RenderFragment ==
  /\ rendered = NotRendered
  /\ rendered' = [tag |-> "html",
                  len |-> cutLength(fragment.htmlLen, fragment.maxChars),
                  cut |-> isCut(fragment.htmlLen, fragment.maxChars),
                  marker |-> hasMarker(fragment)]
  /\ UNCHANGED <<fragment, notTruncVars>>

TruncNext == RenderFragment

TruncSpec == TruncInit /\ [][TruncNext]_vars

\* C26: a rendered fragment carries the "(Content truncated)" marker exactly
\* when its content was cut at maxExpandedCharsPerRef, for top-level
\* expansions and nested templates and for every non-negative limit.
C26_MarkerIffCut ==
  rendered.tag = "html" =>
    LET kept == IF rendered.cut THEN rendered.len - 3 ELSE rendered.len
    IN rendered.marker <=> kept < fragment.htmlLen

----------------------------------------------------------------------------
(* The extension host: workspace indexing and validation on events
   (src/unnamed/part_015, src/src/util/debounce.ts) *)

\* const batchSize = 10
BatchSize == 10

\* numbers of files that findFiles returns
FileCounts == {0, 7, 25}

\* the documents of the workspace; the last one is not markdown
Documents == {"main.md", "sections/a.md", "notes.txt"}

isMarkdown(d) == d # "notes.txt"

\* an indexWorkspace call between its first line and its finally block
InProgress(r) == runs[r].pc \in {"findRoot", "findSections", "batch", "pause"}

\* activate() has run setupFileWatchers and called indexWorkspace(), which
\* ran up to its first await
HostInit ==
  /\ RenderUnused
  /\ ParseUnused
  /\ TruncUnused
  /\ IndexUnused
  /\ CmdUnused
  /\ isIndexingWorkspace = TRUE
  /\ runs = [r \in RunIds |-> IF r = "activation"
                               THEN [NoRun EXCEPT !.pc = "findRoot"] ELSE NoRun]
  /\ lastOpen = NoOpen
  /\ timeoutId = NoTimeout
  /\ changed = {}

\* the weave.validateWorkspace command: await indexWorkspace()
ValidateWorkspaceCommand ==
  /\ runs["command"].pc \in {"none", "done"}
  /\ isIndexingWorkspace' = TRUE
  /\ runs' = [runs EXCEPT !["command"] = [NoRun EXCEPT !.pc = "findRoot"]]
  /\ UNCHANGED <<lastOpen, timeoutId, changed, notHostVars>>

\* await findFiles(rootFile) resolves
FindRootFiles(r) ==
  /\ runs[r].pc = "findRoot"
  /\ runs' = [runs EXCEPT ![r].pc = "findSections"]
  /\ UNCHANGED <<isIndexingWorkspace, lastOpen, timeoutId, changed, notHostVars>>

\* await findFiles(sectionsGlob) resolves with allFiles.length = n; the for
\* loop is entered, or left at once and the finally block runs
FindSectionFiles(r) ==
  /\ runs[r].pc = "findSections"
  /\ \E n \in FileCounts :
       IF n > 0
       THEN /\ runs' = [runs EXCEPT ![r] = [pc |-> "batch", i |-> 0, n |-> n]]
            /\ UNCHANGED isIndexingWorkspace
       ELSE /\ runs' = [runs EXCEPT ![r] = [pc |-> "done", i |-> 0, n |-> 0]]
            /\ isIndexingWorkspace' = FALSE
  /\ UNCHANGED <<lastOpen, timeoutId, changed, notHostVars>>

\* findFiles rejects: catch rethrows, the finally block runs
FindFilesFails(r) ==
  /\ runs[r].pc \in {"findRoot", "findSections"}
  /\ runs' = [runs EXCEPT ![r].pc = "done"]
  /\ isIndexingWorkspace' = FALSE
  /\ UNCHANGED <<lastOpen, timeoutId, changed, notHostVars>>

\* await Promise.all(batch...) resolves: the next batch after a 10 ms pause,
\* or the end of the loop and the finally block
BatchDone(r) ==
  /\ runs[r].pc = "batch"
  /\ IF runs[r].i + BatchSize < runs[r].n
     THEN /\ runs' = [runs EXCEPT ![r].pc = "pause"]
          /\ UNCHANGED isIndexingWorkspace
     ELSE /\ runs' = [runs EXCEPT ![r].pc = "done"]
          /\ isIndexingWorkspace' = FALSE
  /\ UNCHANGED <<lastOpen, timeoutId, changed, notHostVars>>

\* the setTimeout(resolve, 10) between two batches fires: i += batchSize
PauseDone(r) ==
  /\ runs[r].pc = "pause"
  /\ runs' = [runs EXCEPT ![r].pc = "batch", ![r].i = @ + BatchSize]
  /\ UNCHANGED <<isIndexingWorkspace, lastOpen, timeoutId, changed, notHostVars>>

\* onDidOpenTextDocument: validate unless isIndexingWorkspace
OpenTextDocument(d) ==
  /\ lastOpen' = [doc |-> d,
                  indexing |-> \E r \in RunIds : InProgress(r),
                  validated |-> ~isIndexingWorkspace /\ isMarkdown(d)]
  /\ changed' = IF ~isIndexingWorkspace /\ isMarkdown(d) THEN changed \ {d} ELSE changed
  /\ UNCHANGED <<isIndexingWorkspace, runs, timeoutId, notHostVars>>

\* onDidChangeTextDocument: debouncedValidate(event.document) clears the
\* pending timeout and sets a new one
ChangeTextDocument(d) ==
  /\ timeoutId' = d
  /\ changed' = IF isMarkdown(d) THEN changed \cup {d} ELSE changed
  /\ UNCHANGED <<isIndexingWorkspace, runs, lastOpen, notHostVars>>

\* the debounce timeout fires after 300 ms: func(...args), timeoutId = undefined
TimeoutFires ==
  /\ timeoutId # NoTimeout
  /\ changed' = IF isMarkdown(timeoutId) THEN changed \ {timeoutId} ELSE changed
  /\ timeoutId' = NoTimeout
  /\ UNCHANGED <<isIndexingWorkspace, runs, lastOpen, notHostVars>>

IndexStep == \E r \in RunIds : FindRootFiles(r) \/ FindSectionFiles(r) \/ FindFilesFails(r)
                                 \/ BatchDone(r) \/ PauseDone(r)

HostEvent == ValidateWorkspaceCommand
               \/ \E d \in Documents : OpenTextDocument(d) \/ ChangeTextDocument(d)

HostNext == IndexStep \/ HostEvent \/ TimeoutFires

HostSpec == HostInit /\ [][HostNext]_vars

\* C27: whenever an indexWorkspace run is in progress isIndexingWorkspace is
\* true, so no document-open validation is triggered during a run, also when
\* the activation run and a weave.validateWorkspace run overlap.
C27_FlagWhileIndexing ==
  /\ (\E r \in RunIds : InProgress(r)) => isIndexingWorkspace
  /\ lastOpen.indexing => ~lastOpen.validated

\* a timeout that is set fires unless it is cleared: the event loop of the
\* extension host runs every timer that is due
HostLiveSpec == HostSpec /\ WF_vars(TimeoutFires)

\* C28: after a text-change event for a markdown document the document is
\* eventually validated, even if no further event for it occurs and change
\* events for other documents arrive within the debounce window.
C28_EventuallyValidated ==
  \A d \in Documents : (d \in changed) ~> (d \notin changed)

----------------------------------------------------------------------------
(* IndexStore (src/unnamed/part_012) *)

\* what a validated file contributes: the ids of its sections and its
\* reference occurrences <<fromId, toId>>
SectionLists == {<<>>, <<"p">>, <<"q">>, <<"p", "q">>}

ReferenceLists == {<<>>, <<<<"p", "q">>>>, <<<<"p", "q">>, <<"p", "q">>>>,
                   <<<<"q", "p">>, <<"p", "p">>>>}

\* Map.prototype.set on fileIndexByUri: an existing key keeps its place
SetFileIndex(files, fileIndex) ==
  IF \E k \in 1..Len(files) : files[k].uri = fileIndex.uri
  THEN [k \in 1..Len(files) |-> IF files[k].uri = fileIndex.uri THEN fileIndex ELSE files[k]]
  ELSE Append(files, fileIndex)

\* Map.prototype.delete
DeleteFileIndex(files, uri) == SelectSeq(files, LAMBDA f : f.uri # uri)

\* for (const section of fileIndex.sections) sectionsById.set(section.id, section)
RECURSIVE AddSections(_, _, _)
AddSections(byId, uri, sections) ==
  IF sections = <<>> THEN byId
  ELSE AddSections([byId EXCEPT ![Head(sections)] = uri], uri, Tail(sections))

\* outgoing.set(ref.toId, 1): the count is not added up
CountOnce(refs, from, to) == [refs EXCEPT ![<<from, to>>] = 1]

\* map.set(key, (map.get(key) || 0) + 1) on the inner map of from
CountUp(refs, from, to) == [refs EXCEPT ![<<from, to>>] = @ + 1]

\* for (const ref of fileIndex.references): outgoing and incoming counts
RECURSIVE AddReferences(_, _)
AddReferences(maps, references) ==
  IF references = <<>> THEN maps
  ELSE LET ref == Head(references)
       IN AddReferences([outgoing |-> CountUp(maps.outgoing, ref[1], ref[2]),
                         incoming |-> CountUp(maps.incoming, ref[2], ref[1]),
                         sections |-> maps.sections],
                        Tail(references))

\* rebuildDerivedMaps: clear the three maps, then walk the files in order
RECURSIVE WalkFiles(_, _)
WalkFiles(maps, files) ==
  IF files = <<>> THEN maps
  ELSE LET f == Head(files)
           withSections == [maps EXCEPT !.sections = AddSections(@, f.uri, f.sections)]
       IN WalkFiles(AddReferences(withSections, f.references), Tail(files))

rebuildDerivedMaps(files) ==
  WalkFiles([sections |-> NoSections, incoming |-> NoRefs, outgoing |-> NoRefs], files)

IndexInit ==
  /\ RenderUnused
  /\ ParseUnused
  /\ TruncUnused
  /\ HostUnused
  /\ CmdUnused
  /\ IndexUnused

updateFileIndex(uri, sections, references) ==
  LET files == SetFileIndex(fileIndexByUri,
                            [uri |-> uri, sections |-> sections, references |-> references])
      maps == rebuildDerivedMaps(files)
  IN /\ fileIndexByUri' = files
     /\ sectionsById' = maps.sections
     /\ incomingRefs' = maps.incoming
     /\ outgoingRefs' = maps.outgoing
     /\ UNCHANGED notIndexVars

removeFileIndex(uri) ==
  /\ IF \E k \in 1..Len(fileIndexByUri) : fileIndexByUri[k].uri = uri
     THEN LET files == DeleteFileIndex(fileIndexByUri, uri)
              maps == rebuildDerivedMaps(files)
          IN /\ fileIndexByUri' = files
             /\ sectionsById' = maps.sections
             /\ incomingRefs' = maps.incoming
             /\ outgoingRefs' = maps.outgoing
     ELSE UNCHANGED indexVars
  /\ UNCHANGED notIndexVars

clear ==
  /\ fileIndexByUri' = <<>>
  /\ sectionsById' = NoSections
  /\ incomingRefs' = NoRefs
  /\ outgoingRefs' = NoRefs
  /\ UNCHANGED notIndexVars

IndexNext ==
  \/ \E uri \in Uris, sections \in SectionLists, references \in ReferenceLists :
       updateFileIndex(uri, sections, references)
  \/ \E uri \in Uris : removeFileIndex(uri)
  \/ clear

IndexSpec == IndexInit /\ [][IndexNext]_vars

\* the occurrences from -> to in the stored file indices
Occurrences(from, to) ==
  {<<k, n>> \in (1..Len(fileIndexByUri)) \X (1..2) :
     /\ n <= Len(fileIndexByUri[k].references)
     /\ fileIndexByUri[k].references[n] = <<from, to>>}

\* C29: after any sequence of updateFileIndex, removeFileIndex and clear the
\* derived maps are what the stored file indices give: getSectionById(id)
\* returns a section exactly when some stored file has a section with that
\* id, and the incoming count for (to, from) equals the outgoing count for
\* (from, to), the number of occurrences from -> to.
C29_DerivedMapsCurrent ==
  /\ \A id \in IndexIds :
       sectionsById[id] # "none"
         <=> \E k \in 1..Len(fileIndexByUri) :
               \E n \in 1..Len(fileIndexByUri[k].sections) :
                 fileIndexByUri[k].sections[n] = id
  /\ \A id \in IndexIds :
       sectionsById[id] # "none"
         => \E k \in 1..Len(fileIndexByUri) : fileIndexByUri[k].uri = sectionsById[id]
  /\ \A from \in IndexIds, to \in IndexIds :
       /\ incomingRefs[<<to, from>>] = outgoingRefs[<<from, to>>]
       /\ outgoingRefs[<<from, to>>] = Cardinality(Occurrences(from, to))

\* two files are stored, one reference occurs more than once, and a section
\* id of the first file is not stored any more
C29_Witness ==
  /\ Len(fileIndexByUri) = 2
  /\ \E pair \in IndexIds \X IndexIds : outgoingRefs[pair] >= 2
  /\ \E id \in IndexIds : sectionsById[id] = "none"

----------------------------------------------------------------------------
(* The createNodeFromSelection command (src/unnamed/part_002) *)

\* the weave.nodeLinkFormat setting
LinkFormats == {"weave", "markdown"}

\* the items of the display type quick pick: (none) and the seven modes
DisplayTypeItems == {"none"} \cup DisplayTypes

\* createLinkText: the markdown format has no display parameter
createLinkText(linkFormat, displayType) ==
  IF linkFormat = "markdown" THEN [format |-> "markdown", display |-> "none"]
  ELSE [format |-> "weave", display |-> displayType]

CmdInit ==
  /\ RenderUnused
  /\ ParseUnused
  /\ TruncUnused
  /\ HostUnused
  /\ IndexUnused
  /\ cmdPc = "start"
  /\ \E f \in LinkFormats : cmdInput = [linkFormat |-> f, displayType |-> "none"]
  /\ fileCreated = FALSE
  /\ targetDir \in BOOLEAN
  /\ targetFile \in {"absent", "old"}
  /\ linkInDoc = NoLink

\* the guards before the first prompt: an editor, a selection that is not
\* blank, a workspace folder
Guards ==
  /\ cmdPc = "start"
  /\ \E ok \in BOOLEAN : cmdPc' = IF ok THEN "askId" ELSE "done"
  /\ UNCHANGED <<cmdInput, fileCreated, targetDir, targetFile, linkInDoc, notCmdVars>>

\* showInputBox for the node id: a valid id, or cancelled
EnterNodeId ==
  /\ cmdPc = "askId"
  /\ \E given \in BOOLEAN : cmdPc' = IF given THEN "pickDisplay" ELSE "done"
  /\ UNCHANGED <<cmdInput, fileCreated, targetDir, targetFile, linkInDoc, notCmdVars>>

\* showQuickPick for the display type: an item, or cancelled
PickDisplayType ==
  /\ cmdPc = "pickDisplay"
  /\ \/ /\ cmdPc' = "done"
        /\ UNCHANGED cmdInput
     \/ \E item \in DisplayTypeItems :
          /\ cmdInput' = [cmdInput EXCEPT !.displayType = item]
          /\ cmdPc' = "askText"
  /\ UNCHANGED <<fileCreated, targetDir, targetFile, linkInDoc, notCmdVars>>

\* showInputBox for the display text: a text, or cancelled
EnterDisplayText ==
  /\ cmdPc = "askText"
  /\ \E given \in BOOLEAN : cmdPc' = IF given THEN "statFile" ELSE "done"
  /\ UNCHANGED <<cmdInput, fileCreated, targetDir, targetFile, linkInDoc, notCmdVars>>

\* fs.stat(targetFile): the command ends if the file is there
StatTargetFile ==
  /\ cmdPc = "statFile"
  /\ cmdPc' = IF targetFile # "absent" THEN "done" ELSE "statDir"
  /\ UNCHANGED <<cmdInput, fileCreated, targetDir, targetFile, linkInDoc, notCmdVars>>

\* fs.stat(targetDir) inside the inner try
StatTargetDir ==
  /\ cmdPc = "statDir"
  /\ cmdPc' = IF targetDir THEN "writeFile" ELSE "createDirectory"
  /\ UNCHANGED <<cmdInput, fileCreated, targetDir, targetFile, linkInDoc, notCmdVars>>

\* fs.createDirectory(targetDir): done, or rejected (the catch block is next)
CreateDirectory ==
  /\ cmdPc = "createDirectory"
  /\ \E ok \in BOOLEAN :
       IF ok THEN targetDir' = TRUE /\ cmdPc' = "writeFile"
       ELSE UNCHANGED targetDir /\ cmdPc' = "catch"
  /\ UNCHANGED <<cmdInput, fileCreated, targetFile, linkInDoc, notCmdVars>>

\* fs.writeFile(targetFile, ...); fileCreated = true
WriteFile ==
  /\ cmdPc = "writeFile"
  /\ \E ok \in BOOLEAN :
       IF ok THEN targetFile' = "new" /\ fileCreated' = TRUE /\ cmdPc' = "applyEdit"
       ELSE UNCHANGED <<targetFile, fileCreated>> /\ cmdPc' = "catch"
  /\ UNCHANGED <<cmdInput, targetDir, linkInDoc, notCmdVars>>

\* workspace.applyEdit: applied, or false (the command throws), or rejected
ApplyEdit ==
  /\ cmdPc = "applyEdit"
  /\ \E editSuccess \in BOOLEAN :
       IF editSuccess
       THEN /\ linkInDoc' = createLinkText(cmdInput.linkFormat, cmdInput.displayType)
            /\ cmdPc' = "showMessage"
       ELSE UNCHANGED linkInDoc /\ cmdPc' = "catch"
  /\ UNCHANGED <<cmdInput, fileCreated, targetDir, targetFile, notCmdVars>>

\* showInformationMessage(..., 'Open Node'): the button, or dismissed
ShowMessage ==
  /\ cmdPc = "showMessage"
  /\ \E openNode \in BOOLEAN : cmdPc' = IF openNode THEN "openDocument" ELSE "done"
  /\ UNCHANGED <<cmdInput, fileCreated, targetDir, targetFile, linkInDoc, notCmdVars>>

\* openTextDocument(targetFile), inside the same try: opened, or rejected
OpenNodeDocument ==
  /\ cmdPc = "openDocument"
  /\ \E ok \in BOOLEAN : cmdPc' = IF ok THEN "showDocument" ELSE "catch"
  /\ UNCHANGED <<cmdInput, fileCreated, targetDir, targetFile, linkInDoc, notCmdVars>>

\* showTextDocument(doc), inside the same try: shown, or rejected
ShowNodeDocument ==
  /\ cmdPc = "showDocument"
  /\ \E ok \in BOOLEAN : cmdPc' = IF ok THEN "done" ELSE "catch"
  /\ UNCHANGED <<cmdInput, fileCreated, targetDir, targetFile, linkInDoc, notCmdVars>>

\* the catch block: if (fileCreated) fs.delete(targetFile), errors ignored
Rollback ==
  /\ cmdPc = "catch"
  /\ IF fileCreated
     THEN \E deleted \in BOOLEAN :
            targetFile' = IF deleted THEN "absent" ELSE targetFile
     ELSE UNCHANGED targetFile
  /\ cmdPc' = "done"
  /\ UNCHANGED <<cmdInput, fileCreated, targetDir, linkInDoc, notCmdVars>>

CmdNext == Guards \/ EnterNodeId \/ PickDisplayType \/ EnterDisplayText \/ StatTargetFile
             \/ StatTargetDir \/ CreateDirectory \/ WriteFile \/ ApplyEdit \/ ShowMessage
             \/ OpenNodeDocument \/ ShowNodeDocument \/ Rollback

CmdSpec == CmdInit /\ [][CmdNext]_vars

\* C30: when the command has finished, the new node file exists exactly when
\* the selection was replaced by the link to it.
C30_FileIffLink ==
  cmdPc = "done" => (targetFile = "new" <=> linkInDoc # NoLink)

====
